---------------------------- MODULE Spec2Model ----------------------------
(***************************************************************************)
(* Model of the adaptive training engine of chessideas (CoachReps):        *)
(*   - Sm2Scheduler            src/services/scheduler.ts                   *)
(*   - AdvancedSkillPolicy     src/services/skillService.ts                *)
(*   - generateDrillFromMode   src/services/analysisService.ts             *)
(*                                                                         *)
(* Numbers.  JavaScript numbers are modelled in fixed point:               *)
(*   easeFactor, mastery, confidence   in hundredths (2.5 is 250)          *)
(*   scores (expected, actual)         in millionths                       *)
(*   time                              in hours (the code's millisecond    *)
(*                                     products exceed TLC's integers)     *)
(***************************************************************************)
EXTENDS Integers, Sequences, FiniteSets, TLC

VARIABLES
    \* --- Sm2Scheduler -------------------------------------------------------
    sched,        \* the DrillSchedule of one drill
    schedPrev,    \* the schedule the last calculateNext was given
    schedLog,     \* the outcomes passed to calculateNext so far, oldest first
    clock,        \* Date.now(), in hours
    \* --- AdvancedSkillPolicy ------------------------------------------------
    skill,        \* the SkillState of one theme
    skillPrev,    \* the state the last updateSkill was given
    skillArg,     \* [outcome, difficulty] of the last updateSkill
    skillCalls,   \* number of updateSkill calls so far
    \* --- generateDrillFromMode ----------------------------------------------
    pool,         \* games: sequence of ids of the game catalogue
    mode,         \* TrainingMode
    startMove,    \* options.startMove (0: absent)
    pc,           \* position of the call: "call", "loop", "returned", "thrown"
    attempts,     \* the local attempts
    rejected,     \* number of loop iterations that ended in `continue`
    lastVerdict,  \* how the last loop iteration ended
    drill,        \* the returned Drill, NoDrill before that
    error,        \* message of the thrown Error, "" before that
    \* --- LearningLoopService -----------------------------------------------
    evalArg,      \* [isCorrect, durationMs, retryCount] of the last evaluateAttempt
    evalOutcome,  \* what it returned, "none" before the first call
    stopArg,      \* recentOutcomes as last given to checkStopCondition
    stopResult,   \* what checkStopCondition returned for it
    \* --- App ----------------------------------------------------------------
    view,                  \* View shown when nothing is loading
    rawGames,              \* ids of the imported games
    selectedTimeControls,  \* the time controls ticked on the dashboard
    loadingState,          \* "null", or the status text of the loading screen
    toasts,                \* texts of the toasts on screen
    shown,                 \* texts of all toasts shown so far (history)
    drills,                \* ids of the drills kept
    sessionQueue,          \* ids of the drills of the session
    handler,               \* the handler that is running, "none" between events
    sessionTimer,          \* the 500 ms timeout of startSessionWithDrill is pending
    selects,               \* handleModeSelect calls so far
    requested,             \* handleModeSelect's argument `mode` while it runs
    draw,                  \* its Math.random() * 100 while it runs, NoDraw if not drawn
    \* --- DrillPlayer --------------------------------------------------------
    variant,           \* which of the repository's two DrillPlayer files is running
    mounted,           \* the player is on screen
    fatalError,        \* the drill's position could not be loaded
    currentMoveIndex,  \* chessInstance.history().length
    playerRetryCount,  \* state retryCount
    playerHintUsed,    \* state hintUsed
    playerOutcome,     \* state outcome, "null" before one is set
    isProcessing,      \* state isProcessing (part_001)
    isCoaching,        \* state isCoaching (DrillPlayer.tsx)
    coachMsg,          \* a coach response is displayed
    coachPending,      \* generateCoachResponse has not settled yet
    helped,            \* the learner took the hint or played a wrong move (history)
    completions,       \* the calls of onComplete: outcome, origin, helped (history)
    \* --- logger -------------------------------------------------------------
    logBuffer,     \* the module's array, entries as serial numbers in logging order
    logSerial,     \* entries logged so far
    logOp,         \* the last call made
    logBefore,     \* logBuffer before that call (history)
    logReturned    \* the array the last call returned, as its caller holds it

schedVars == <<sched, schedPrev, schedLog, clock>>
skillVars == <<skill, skillPrev, skillArg, skillCalls>>
genVars   == <<pool, mode, startMove, pc, attempts, rejected, lastVerdict, drill, error>>
loopVars  == <<evalArg, evalOutcome, stopArg, stopResult>>
appVars   == <<view, rawGames, selectedTimeControls, loadingState, toasts, shown,
               drills, sessionQueue, handler, sessionTimer, selects, requested, draw>>
playerVars == <<variant, mounted, fatalError, currentMoveIndex, playerRetryCount,
                playerHintUsed, playerOutcome, isProcessing, isCoaching, coachMsg,
                coachPending, helped, completions>>
loggerVars == <<logBuffer, logSerial, logOp, logBefore, logReturned>>
vars      == <<schedVars, skillVars, genVars, loopVars, appVars, playerVars, loggerVars>>

\* DrillOutcome (types.ts, as used by scheduler.ts:20-29 and skillService.ts:33-42)
Outcomes == {"PERFECT", "SLOW_SUCCESS", "SUCCESS_WITH_HINT", "FAILURE", "ABANDONED"}

Max(a, b) == IF a >= b THEN a ELSE b
Min(a, b) == IF a <= b THEN a ELSE b
Abs(a)    == IF a >= 0 THEN a ELSE -a

(***************************************************************************)
(*                              Sm2Scheduler                               *)
(***************************************************************************)

\* bounds of the scheduler's exploration
MaxCalls == 6        \* calculateNext calls per behaviour
MaxNow   == 2        \* latest value of the clock, in hours

\* constants.ts:13  initialEase: 2.5
initialEase == 250
\* scheduler.ts:53  the ease-factor floor 1.3
EASE_FLOOR == 130
\* scheduler.ts:56  24 * 60 * 60 * 1000 ms, in hours
DAY_HOURS == 24

\* scheduler.ts:10-18
createInitialSchedule(now) ==
    [nextDueAt |-> now, interval |-> 0, repetition |-> 0, easeFactor |-> initialEase]

\* mutant: ABANDONED falls through to the default grade
mapOutcomeToGradeDefault(outcome) ==
    CASE outcome = "PERFECT"           -> 5
      [] outcome = "SLOW_SUCCESS"      -> 4
      [] outcome = "SUCCESS_WITH_HINT" -> 3
      [] outcome = "FAILURE"           -> 1
      [] OTHER                         -> 3

\* scheduler.ts:20-29
mapOutcomeToGrade(outcome) ==
    CASE outcome = "PERFECT"           -> 5
      [] outcome = "SLOW_SUCCESS"      -> 4
      [] outcome = "SUCCESS_WITH_HINT" -> 3
      [] outcome = "FAILURE"           -> 1
      [] outcome = "ABANDONED"         -> 0
      [] OTHER                         -> 3

\* Math.round of a non-negative number given in hundredths
RoundHundredths(x) == (x + 50) \div 100

\* scheduler.ts:52, before the floor: 100 * (0.1 - (5 - q) * (0.08 + (5 - q) * 0.02))
EaseDelta(grade) == 10 - (5 - grade) * (8 + (5 - grade) * 2)

\* mutant: the floor is missing
EaseUpdateNoFloor(easeFactor, grade) == easeFactor + EaseDelta(grade)

\* mutant: a fail resets the ease factor to the default
EaseUpdateReset(easeFactor, grade) ==
    IF grade < 3 THEN initialEase
    ELSE Max(EASE_FLOOR, easeFactor + EaseDelta(grade))

\* scheduler.ts:50-53
EaseUpdate(easeFactor, grade) ==
    LET raised == easeFactor + EaseDelta(grade)
    IN  IF raised < EASE_FLOOR THEN EASE_FLOOR ELSE raised

\* mutant: repetition is incremented before the branch on it
PassIntervalLate(interval, repetition, easeFactor) ==
    IF repetition + 1 = 0 THEN 1
    ELSE IF repetition + 1 = 1 THEN 6
    ELSE RoundHundredths(interval * easeFactor)

\* mutant: the first two intervals are exchanged
PassIntervalSwapped(interval, repetition, easeFactor) ==
    IF repetition = 0 THEN 6
    ELSE IF repetition = 1 THEN 1
    ELSE RoundHundredths(interval * easeFactor)

\* scheduler.ts:36-42  the interval of a pass
PassInterval(interval, repetition, easeFactor) ==
    IF repetition = 0 THEN 1
    ELSE IF repetition = 1 THEN 6
    ELSE RoundHundredths(interval * easeFactor)

\* mutant: the ease factor is updated before the interval is computed from it
calculateNextEaseFirst(current, outcome, now) ==
    LET grade == mapOutcomeToGrade(outcome)
        pass  == grade >= 3
        easeFactor == EaseUpdate(current.easeFactor, grade)
        interval   == IF pass
                      THEN PassInterval(current.interval, current.repetition, easeFactor)
                      ELSE 1
        repetition == IF pass THEN current.repetition + 1 ELSE 0
    IN  [nextDueAt  |-> now + interval * DAY_HOURS,
         interval   |-> interval,
         repetition |-> repetition,
         easeFactor |-> easeFactor]

\* mutant: the due date is computed from the interval the call was given
calculateNextOldInterval(current, outcome, now) ==
    LET grade == mapOutcomeToGrade(outcome)
        pass  == grade >= 3
        interval   == IF pass
                      THEN PassInterval(current.interval, current.repetition,
                                        current.easeFactor)
                      ELSE 1
        repetition == IF pass THEN current.repetition + 1 ELSE 0
    IN  [nextDueAt  |-> now + current.interval * DAY_HOURS,
         interval   |-> interval,
         repetition |-> repetition,
         easeFactor |-> EaseUpdate(current.easeFactor, grade)]

\* scheduler.ts:31-65
calculateNext(current, outcome, now) ==
    LET grade == mapOutcomeToGrade(outcome)
        pass  == grade >= 3
        interval   == IF pass
                      THEN PassInterval(current.interval, current.repetition,
                                        current.easeFactor)
                      ELSE 1
        repetition == IF pass THEN current.repetition + 1 ELSE 0
    IN  [nextDueAt  |-> now + interval * DAY_HOURS,
         interval   |-> interval,
         repetition |-> repetition,
         easeFactor |-> EaseUpdate(current.easeFactor, grade)]

SchedInit ==
    /\ clock \in 0..MaxNow
    /\ sched = createInitialSchedule(clock)
    /\ schedPrev = sched
    /\ schedLog = << >>

\* App.handleDrillComplete -> scheduler.calculateNext, at a later time
CalculateNext ==
    /\ Len(schedLog) < MaxCalls
    /\ \E outcome \in Outcomes, now \in clock..MaxNow :
          /\ clock' = now
          /\ schedPrev' = sched
          /\ sched' = calculateNext(sched, outcome, now)
          /\ schedLog' = Append(schedLog, outcome)

(***************************************************************************)
(*                           AdvancedSkillPolicy                           *)
(*                                                                         *)
(* mastery and confidence are the two-decimal values update returns        *)
(* (toFixed(2)), held in hundredths.  The logistic expectancy is computed  *)
(* in millionths from 10^(-1/40) and 10^(-1/4000) powers; it agrees with   *)
(* the floating-point value to within 3 millionths.                        *)
(***************************************************************************)

\* bound of the skill model's exploration
MaxUpdates == 3      \* updateSkill calls per behaviour

Difficulties == 1..5

\* skillService.ts:105-110
createInitialSkill == [mastery |-> 4000, confidence |-> 20, streak |-> 0, lastPracticed |-> 0]

\* States the code reaches from createInitialSkill, taken as starting points so
\* that the clamps are met within MaxUpdates:
\*   3 x PERFECT at difficulty 5   -> mastery 91.12, confidence 0,    streak 3
\*   4 x FAILURE at difficulty 1   -> mastery  0.37, confidence 0.10, streak 0
\*  45 x FAILURE at difficulty 3   -> mastery  0.06, confidence 1,    streak 0
\*  11 x PERFECT at difficulty 3   -> mastery 99.16, confidence 0.45, streak 11
StartSkills ==
    { createInitialSkill,
      [mastery |-> 9112, confidence |-> 0,   streak |-> 3,  lastPracticed |-> 0],
      [mastery |-> 37,   confidence |-> 10,  streak |-> 0,  lastPracticed |-> 0],
      [mastery |-> 6,    confidence |-> 100, streak |-> 0,  lastPracticed |-> 0],
      [mastery |-> 9916, confidence |-> 45,  streak |-> 11, lastPracticed |-> 0] }

\* 10^(-a/40) in millionths, a = 0..100
PowCoarse ==
  <<1000000, 944061, 891251, 841395, 794328, 749894, 707946, 668344, 630957, 595662,
    562341, 530884, 501187, 473151, 446684, 421697, 398107, 375837, 354813, 334965,
    316228, 298538, 281838, 266073, 251189, 237137, 223872, 211349, 199526, 188365,
    177828, 167880, 158489, 149624, 141254, 133352, 125893, 118850, 112202, 105925,
    100000, 94406, 89125, 84140, 79433, 74989, 70795, 66834, 63096, 59566,
    56234, 53088, 50119, 47315, 44668, 42170, 39811, 37584, 35481, 33497,
    31623, 29854, 28184, 26607, 25119, 23714, 22387, 21135, 19953, 18836,
    17783, 16788, 15849, 14962, 14125, 13335, 12589, 11885, 11220, 10593,
    10000, 9441, 8913, 8414, 7943, 7499, 7079, 6683, 6310, 5957,
    5623, 5309, 5012, 4732, 4467, 4217, 3981, 3758, 3548, 3350,
    3162>>

\* 10^(-b/4000) in millionths, b = 0..99
PowFine ==
  <<1000000, 999425, 998849, 998275, 997700, 997126, 996552, 995979, 995405, 994833,
    994260, 993688, 993116, 992545, 991973, 991402, 990832, 990262, 989692, 989122,
    988553, 987984, 987416, 986847, 986279, 985712, 985145, 984578, 984011, 983445,
    982879, 982313, 981748, 981183, 980618, 980054, 979490, 978926, 978363, 977800,
    977237, 976675, 976113, 975551, 974990, 974429, 973868, 973307, 972747, 972187,
    971628, 971069, 970510, 969951, 969393, 968835, 968278, 967721, 967164, 966607,
    966051, 965495, 964939, 964384, 963829, 963274, 962720, 962166, 961612, 961059,
    960506, 959953, 959401, 958849, 958297, 957745, 957194, 956643, 956093, 955542,
    954993, 954443, 953894, 953345, 952796, 952248, 951700, 951152, 950605, 950058,
    949511, 948965, 948418, 947873, 947327, 946782, 946237, 945693, 945148, 944604>>

\* product of two numbers given in millionths, in millionths
MulMillionths(p, q) == ((p \div 1000) * q) \div 1000 + ((p % 1000) * q) \div 1000000

\* 1 / d for d in millionths (1000000 <= d <= 2000000), in millionths
InvMillionths(d) ==
    LET q1 == 1000000000 \div d
        r1 == 1000000000 % d
    IN  q1 * 1000 + (r1 * 1000) \div d

\* Math.pow(10, -x / 40) for x >= 0 given in hundredths, in millionths
Pow10Neg(x) == MulMillionths(PowCoarse[(x \div 100) + 1], PowFine[(x % 100) + 1])

\* skillService.ts:20-23
getDrillRating(difficulty) == Min(100, Max(10, difficulty * 20))

\* skillService.ts:26-31  userMastery in hundredths, drillRating in points;
\* for diff < 0, 1 / (1 + 10^(|diff|/40)) = 1 - 1 / (1 + 10^(-|diff|/40))
getExpectedScore(userMastery, drillRating) ==
    LET diff == userMastery - drillRating * 100
        e    == InvMillionths(1000000 + Pow10Neg(Abs(diff)))
    IN  IF diff >= 0 THEN e ELSE 1000000 - e

\* mutant: no penalty for slowness
getPerformanceScoreFlat(outcome) ==
    CASE outcome = "PERFECT"           -> 1000000
      [] outcome = "SLOW_SUCCESS"      -> 1000000
      [] outcome = "SUCCESS_WITH_HINT" -> 500000
      [] OTHER                         -> 0

\* skillService.ts:33-42, in millionths
getPerformanceScore(outcome) ==
    CASE outcome = "PERFECT"           -> 1000000
      [] outcome = "SLOW_SUCCESS"      -> 850000
      [] outcome = "SUCCESS_WITH_HINT" -> 500000
      [] outcome = "FAILURE"           -> 0
      [] outcome = "ABANDONED"         -> 0
      [] OTHER                         -> 0

\* mutant: baseK is 40
KFactorWide(confidence) == 2 * (200 - confidence)

\* skillService.ts:52-54  kFactor = 20 * (1.0 - confidence * 0.5), in tenths
KFactor(confidence) == 200 - confidence

\* skillService.ts:56-58  mastery + rawDelta before the clamp, in 10^-7 points
RawMastery(state, outcome, difficulty) ==
    LET expectedScore == getExpectedScore(state.mastery, getDrillRating(difficulty))
        actualScore   == getPerformanceScore(outcome)
    IN  state.mastery * 100000 + KFactor(state.confidence) * (actualScore - expectedScore)

\* mutant: the clamp of mastery is missing
ClampMasteryNone(raw) == raw

\* skillService.ts:59  Math.max(0, Math.min(100, newMastery)), in 10^-7 points
ClampMastery(raw) == Max(0, Min(1000000000, raw))

\* skillService.ts:64  surprise, in millionths
Surprise(state, outcome, difficulty) ==
    Abs(getPerformanceScore(outcome)
        - getExpectedScore(state.mastery, getDrillRating(difficulty)))

\* mutant: a surprise of exactly 0.5 already lowers the confidence
RawConfidenceInclusive(state, outcome, difficulty) ==
    IF Surprise(state, outcome, difficulty) >= 500000
    THEN state.confidence - 10
    ELSE state.confidence + 5

\* skillService.ts:66-73  confidence before the clamp, in hundredths
RawConfidence(state, outcome, difficulty) ==
    IF Surprise(state, outcome, difficulty) > 500000
    THEN state.confidence - 10
    ELSE state.confidence + 5

\* skillService.ts:76
ClampConfidence(raw) == Max(0, Min(100, raw))

\* skillService.ts:87  parseFloat(x.toFixed(2)) of x >= 0 in 10^-7 points, in hundredths
ToFixed2(x) == (x + 50000) \div 100000

\* mutant: the streak survives an outcome that is not a clean success
updateKeepStreak(currentState, outcome, drillDifficulty, now) ==
    [mastery       |-> ToFixed2(ClampMastery(RawMastery(currentState, outcome, drillDifficulty))),
     confidence    |-> ClampConfidence(RawConfidence(currentState, outcome, drillDifficulty)),
     streak        |-> IF getPerformanceScore(outcome) >= 800000
                       THEN currentState.streak + 1
                       ELSE currentState.streak,
     lastPracticed |-> now]

\* skillService.ts:44-92
update(currentState, outcome, drillDifficulty, now) ==
    [mastery       |-> ToFixed2(ClampMastery(RawMastery(currentState, outcome, drillDifficulty))),
     confidence    |-> ClampConfidence(RawConfidence(currentState, outcome, drillDifficulty)),
     streak        |-> IF getPerformanceScore(outcome) >= 800000
                       THEN currentState.streak + 1
                       ELSE 0,
     lastPracticed |-> now]

\* skillService.ts:101-103
updateSkill(currentSkill, outcome, drillDifficulty, now) ==
    update(currentSkill, outcome, drillDifficulty, now)

NoArg == [outcome |-> "none", difficulty |-> 0]

SkillInit ==
    /\ skill \in StartSkills
    /\ skillPrev = skill
    /\ skillArg = NoArg
    /\ skillCalls = 0

\* App.handleDrillComplete -> updateSkill
UpdateSkill ==
    /\ skillCalls < MaxUpdates
    /\ \E outcome \in Outcomes, difficulty \in Difficulties :
          /\ skillPrev' = skill
          /\ skillArg' = [outcome |-> outcome, difficulty |-> difficulty]
          /\ skill' = updateSkill(skill, outcome, difficulty, clock)
          /\ skillCalls' = skillCalls + 1

(***************************************************************************)
(*                          generateDrillFromMode                          *)
(*                                                                         *)
(* chess.js is outside the repository.  A game is modelled by what the     *)
(* library reports of it: whether loadPgn accepts the notation, the        *)
(* history as a list of SAN strings (tuples of characters), the ply counts *)
(* at which the piece placement is the starting arrangement, and the ply   *)
(* counts whose position string the Chess constructor refuses.             *)
(***************************************************************************)

\* bound of the generator's exploration
MaxPool == 3         \* games in the pool

\* analysisService.ts:103
maxAttempts == 50
\* analysisService.ts:131  minimum history length
MIN_PLIES == 12
\* analysisService.ts:180, 212  plies kept for the solution
LOOKAHEAD == 6

Modes == {"RANDOM_MOMENT", "CRITICAL_POSITION", "START_FROM_MOVE", "ENDGAME_FINISH", "ANY"}

\* options.startMove: absent (0), the UI's 6, 10, 14 (App.tsx), and 1, 3
StartMoves == {0, 1, 3, 6, 10, 14}

HistoryShort3 ==
  <<<<"e", "4">>, <<"e", "5">>, <<"N", "f", "3">>>>

HistoryShuffle14 ==
  <<<<"N", "f", "3">>, <<"N", "f", "6">>, <<"N", "g", "1">>, <<"N", "g", "8">>,
    <<"N", "f", "3">>, <<"N", "f", "6">>, <<"N", "g", "1">>, <<"N", "g", "8">>,
    <<"N", "f", "3">>, <<"N", "f", "6">>, <<"N", "g", "1">>, <<"N", "g", "8">>,
    <<"N", "f", "3">>, <<"N", "f", "6">>>>

HistoryQuiet12 ==
  <<<<"e", "4">>, <<"e", "5">>, <<"N", "f", "3">>, <<"N", "c", "6">>,
    <<"B", "c", "4">>, <<"B", "c", "5">>, <<"d", "3">>, <<"d", "6">>,
    <<"N", "c", "3">>, <<"N", "f", "6">>, <<"h", "3">>, <<"h", "6">>>>

HistoryLong24 ==
  <<<<"e", "4">>, <<"e", "5">>, <<"N", "f", "3">>, <<"N", "c", "6">>,
    <<"B", "c", "4">>, <<"B", "c", "5">>, <<"d", "3">>, <<"d", "6">>,
    <<"N", "c", "3">>, <<"N", "f", "6">>, <<"h", "3">>, <<"h", "6">>,
    <<"O", "-", "O">>, <<"O", "-", "O">>, <<"B", "e", "3">>, <<"B", "b", "6">>,
    <<"B", "x", "b", "6">>, <<"a", "x", "b", "6">>, <<"N", "d", "5">>, <<"N", "x", "d", "5">>,
    <<"B", "x", "d", "5">>, <<"N", "e", "7">>, <<"B", "b", "3">>, <<"N", "g", "6">>>>

\* the 24-ply game broken off after 20 and after 21 plies
HistoryCut20 == SubSeq(HistoryLong24, 1, 20)
HistoryCut21 == SubSeq(HistoryLong24, 1, 21)

HistoryRefused16 ==
  <<<<"d", "4">>, <<"d", "5">>, <<"c", "4">>, <<"e", "6">>,
    <<"N", "c", "3">>, <<"N", "f", "6">>, <<"B", "g", "5">>, <<"B", "e", "7">>,
    <<"e", "3">>, <<"O", "-", "O">>, <<"N", "f", "3">>, <<"h", "6">>,
    <<"B", "h", "4">>, <<"b", "6">>, <<"B", "e", "2">>, <<"B", "b", "7">>>>

HistoryAnderssen ==
  <<<<"e", "4">>, <<"e", "5">>, <<"N", "f", "3">>, <<"N", "c", "6">>,
    <<"B", "c", "4">>, <<"B", "c", "5">>, <<"b", "4">>, <<"B", "x", "b", "4">>,
    <<"c", "3">>, <<"B", "a", "5">>, <<"d", "4">>, <<"e", "x", "d", "4">>,
    <<"O", "-", "O">>, <<"d", "3">>, <<"Q", "b", "3">>, <<"Q", "f", "6">>,
    <<"e", "5">>, <<"Q", "g", "6">>, <<"R", "e", "1">>, <<"N", "g", "e", "7">>,
    <<"B", "a", "3">>, <<"b", "5">>, <<"Q", "x", "b", "5">>, <<"R", "b", "8">>,
    <<"Q", "a", "4">>, <<"B", "b", "6">>, <<"N", "b", "d", "2">>, <<"B", "b", "7">>,
    <<"N", "e", "4">>, <<"Q", "f", "5">>, <<"B", "x", "d", "3">>, <<"Q", "h", "5">>,
    <<"N", "f", "6", "+">>, <<"g", "x", "f", "6">>, <<"e", "x", "f", "6">>, <<"R", "g", "8">>,
    <<"R", "a", "d", "1">>, <<"Q", "x", "f", "3">>, <<"R", "x", "e", "7", "+">>, <<"N", "x", "e", "7">>,
    <<"Q", "x", "d", "7", "+">>, <<"K", "x", "d", "7">>, <<"B", "f", "5", "+">>, <<"K", "e", "8">>,
    <<"B", "d", "7", "+">>, <<"K", "f", "8">>, <<"B", "x", "e", "7", "#">>>>

\* The starting arrangement recurs only when both sides have moved pieces out
\* and back (knights): HistoryShuffle14 is at home after 0, 4, 8 and 12 plies.
\* "anderssen" is DEMO_PGN of constants.ts:19-27.
Games ==
    [bad       |-> [id |-> "bad",       parses |-> FALSE, history |-> << >>,
                    home |-> {0}, refused |-> {}],
     nomoves   |-> [id |-> "nomoves",   parses |-> TRUE,  history |-> << >>,
                    home |-> {0}, refused |-> {}],
     short3    |-> [id |-> "short3",    parses |-> TRUE,  history |-> HistoryShort3,
                    home |-> {0}, refused |-> {}],
     shuffle14 |-> [id |-> "shuffle14", parses |-> TRUE,  history |-> HistoryShuffle14,
                    home |-> {0, 4, 8, 12}, refused |-> {}],
     quiet12   |-> [id |-> "quiet12",   parses |-> TRUE,  history |-> HistoryQuiet12,
                    home |-> {0}, refused |-> {}],
     long24    |-> [id |-> "long24",    parses |-> TRUE,  history |-> HistoryLong24,
                    home |-> {0}, refused |-> {}],
     cut20     |-> [id |-> "cut20",     parses |-> TRUE,  history |-> HistoryCut20,
                    home |-> {0}, refused |-> {}],
     cut21     |-> [id |-> "cut21",     parses |-> TRUE,  history |-> HistoryCut21,
                    home |-> {0}, refused |-> {}],
     refused16 |-> [id |-> "refused16", parses |-> TRUE,  history |-> HistoryRefused16,
                    home |-> {0}, refused |-> 1..16],
     anderssen |-> [id |-> "anderssen", parses |-> TRUE,  history |-> HistoryAnderssen,
                    home |-> {0}, refused |-> {}]]

GameIds == DOMAIN Games

\* new Chess().fen().split(' ')[0]
GLOBAL_START_BOARD == <<"start", 0>>

\* chess.fen() after `ply` plies of game g: the placement field and the rest
FenAt(g, ply) ==
    [board |-> IF ply \in g.home THEN GLOBAL_START_BOARD ELSE <<g.id, ply>>,
     ply   |-> ply]

\* String.prototype.includes for one character
Includes(san, ch) == \E i \in 1..Len(san) : san[i] = ch

\* analysisService.ts:158
IsTactical(san) == Includes(san, "x") \/ Includes(san, "+") \/ Includes(san, "#")

\* mutant: the scan starts at the first ply
CandidatesFromStart(fullHistory) ==
    {i \in 0..(Len(fullHistory) - 9) : IsTactical(fullHistory[i + 1])}

\* analysisService.ts:155-161  candidates, as 0-based ply indices
Candidates(fullHistory) ==
    {i \in 12..(Len(fullHistory) - 9) : IsTactical(fullHistory[i + 1])}

\* analysisService.ts:139-177  the values targetIndex can take before the
\* bounds check, one for each outcome of Math.random()
TargetChoices(m, sm, fullHistory) ==
    LET n == Len(fullHistory)
    IN  CASE m = "START_FROM_MOVE" ->
               {Max(0, ((IF sm = 0 THEN 10 ELSE sm) - 1) * 2)}
          [] m = "RANDOM_MOMENT" ->
               12..Max(12, n - 8)
          [] m = "CRITICAL_POSITION" ->
               IF Candidates(fullHistory) # {}
               THEN Candidates(fullHistory)
               ELSE {n \div 2}
          [] m = "ENDGAME_FINISH" ->
               {Max(0, n - 20)}
          [] OTHER ->
               {n \div 2}

\* analysisService.ts:136-173
ThemeOf(m) ==
    CASE m = "RANDOM_MOMENT"  -> "advantage"
      [] m = "ENDGAME_FINISH" -> "endgame"
      [] OTHER                -> "tactics"

\* analysisService.ts:137, 173
GoalOf(m) == IF m = "ENDGAME_FINISH" THEN "Convert the endgame" ELSE "Find the best move"

\* mutant: the bounds check keeps one ply instead of six
ClampTargetOnePly(targetIndex, n) == Max(0, Min(targetIndex, n - 1))

\* analysisService.ts:180
ClampTarget(targetIndex, n) == Max(0, Min(targetIndex, n - LOOKAHEAD))

\* analysisService.ts:212  fullHistory.slice(targetIndex, targetIndex + 6)
SolutionMoves(fullHistory, targetIndex) ==
    SubSeq(fullHistory, targetIndex + 1, Min(targetIndex + LOOKAHEAD, Len(fullHistory)))

\* mutant: the tactical moves are kept instead of all moves (filter for map)
SolutionSanFiltered(solutionMoves) == SelectSeq(solutionMoves, IsTactical)

\* analysisService.ts:215  solutionMoves.map(m => m.san)
SolutionSan(solutionMoves) == [i \in 1..Len(solutionMoves) |-> solutionMoves[i]]

\* analysisService.ts:185  movesToUndo
MovesToUndo(n, targetIndex) == n - targetIndex

\* chess.undo() `count` times from the position after `ply` plies; undo does
\* nothing once the history is empty
Undo(ply, count) == Max(0, ply - count)

\* mutant: the loop undoes one move more
RewindPlyOneMore(n, targetIndex) == Undo(n, MovesToUndo(n, targetIndex) + 1)

\* analysisService.ts:182-189  plies left on the board after the rewind from
\* the end of the game
RewindPly(n, targetIndex) == Undo(n, MovesToUndo(n, targetIndex))

\* mutant: the starting position is never skipped
SkipsStartNever(m, board) == FALSE

\* analysisService.ts:199
SkipsStart(m, board) == m # "START_FROM_MOVE" /\ board = GLOBAL_START_BOARD

\* mutant: no minimum length
LoadVerdictNoMinimum(g) ==
    IF ~g.parses THEN "parse_error"
    ELSE IF Len(g.history) = 0 THEN "no_moves"
    ELSE "go_on"

\* analysisService.ts:114-133  how the loop body ends before a target is chosen:
\* "parse_error", "no_moves", "too_short", or "go_on"
LoadVerdict(g) ==
    IF ~g.parses THEN "parse_error"
    ELSE IF Len(g.history) = 0 THEN "no_moves"
    ELSE IF Len(g.history) < MIN_PLIES THEN "too_short"
    ELSE "go_on"

\* analysisService.ts:179-213  how the loop body ends once targetIndex is chosen
TargetVerdict(g, m, chosen) ==
    LET targetIndex == ClampTarget(chosen, Len(g.history))
        rewound     == RewindPly(Len(g.history), targetIndex)
    IN  IF SkipsStart(m, FenAt(g, rewound).board) THEN "start_position"
        ELSE IF rewound \in g.refused THEN "invalid_fen"
        ELSE IF Len(SolutionMoves(g.history, targetIndex)) = 0 THEN "no_solution"
        ELSE "ok"

\* analysisService.ts:219-229
MakeDrill(g, m, chosen) ==
    LET targetIndex == ClampTarget(chosen, Len(g.history))
    IN  [id            |-> <<"drill", m, g.id>>,
         sourceGameId  |-> g.id,
         fen           |-> FenAt(g, RewindPly(Len(g.history), targetIndex)),
         theme         |-> ThemeOf(m),
         goal          |-> GoalOf(m),
         solutionSan   |-> SolutionSan(SolutionMoves(g.history, targetIndex)),
         playedMoveSan |-> g.history[targetIndex + 1],
         difficulty    |-> 3]

NoDrill == [id |-> <<"none">>]

\* mutant: attempts is not counted
CountAttemptNot(n) == n

\* analysisService.ts:109  attempts++
CountAttempt(n) == n + 1

GenInit ==
    /\ pool \in {p \in SUBSET GameIds : Cardinality(p) <= MaxPool}
    /\ mode \in Modes
    /\ startMove \in IF mode = "START_FROM_MOVE" THEN StartMoves ELSE {0}
    /\ pc = "call"
    /\ attempts = 0
    /\ rejected = 0
    /\ lastVerdict = "none"
    /\ drill = NoDrill
    /\ error = ""

\* analysisService.ts:98-100
CallEmpty ==
    /\ pc = "call"
    /\ pool = {}
    /\ pc' = "thrown"
    /\ error' = "No games provided for analysis."
    /\ UNCHANGED <<pool, mode, startMove, attempts, rejected, lastVerdict, drill>>

\* analysisService.ts:102-106
CallEnter ==
    /\ pc = "call"
    /\ pool # {}
    /\ pc' = "loop"
    /\ attempts' = 0
    /\ UNCHANGED <<pool, mode, startMove, rejected, lastVerdict, drill, error>>

\* mutant: a game that cannot be used ends the call
AttemptDiscardAborts ==
    /\ pc = "loop"
    /\ attempts < maxAttempts
    /\ \E id \in pool :
          /\ LoadVerdict(Games[id]) # "go_on"
          /\ lastVerdict' = LoadVerdict(Games[id])
    /\ attempts' = CountAttempt(attempts)
    /\ rejected' = rejected + 1
    /\ pc' = "thrown"
    /\ UNCHANGED <<pool, mode, startMove, drill, error>>

\* analysisService.ts:108-133  an iteration that ends in `continue` before
\* a target is chosen
AttemptDiscard ==
    /\ pc = "loop"
    /\ attempts < maxAttempts
    /\ \E id \in pool :
          /\ LoadVerdict(Games[id]) # "go_on"
          /\ lastVerdict' = LoadVerdict(Games[id])
    /\ attempts' = CountAttempt(attempts)
    /\ rejected' = rejected + 1
    /\ UNCHANGED <<pool, mode, startMove, pc, drill, error>>

\* analysisService.ts:108-213  an iteration that ends in `continue` after
\* a target is chosen
AttemptReject ==
    /\ pc = "loop"
    /\ attempts < maxAttempts
    /\ \E id \in pool :
          /\ LoadVerdict(Games[id]) = "go_on"
          /\ \E chosen \in TargetChoices(mode, startMove, Games[id].history) :
                /\ TargetVerdict(Games[id], mode, chosen) # "ok"
                /\ lastVerdict' = TargetVerdict(Games[id], mode, chosen)
    /\ attempts' = CountAttempt(attempts)
    /\ rejected' = rejected + 1
    /\ UNCHANGED <<pool, mode, startMove, pc, drill, error>>

\* analysisService.ts:108-229  an iteration that returns a Drill
AttemptReturn ==
    /\ pc = "loop"
    /\ attempts < maxAttempts
    /\ \E id \in pool :
          /\ LoadVerdict(Games[id]) = "go_on"
          /\ \E chosen \in TargetChoices(mode, startMove, Games[id].history) :
                /\ TargetVerdict(Games[id], mode, chosen) = "ok"
                /\ drill' = MakeDrill(Games[id], mode, chosen)
    /\ attempts' = CountAttempt(attempts)
    /\ lastVerdict' = "ok"
    /\ pc' = "returned"
    /\ UNCHANGED <<pool, mode, startMove, rejected, error>>

\* analysisService.ts:108, 232  the loop condition fails
Exhausted ==
    /\ pc = "loop"
    /\ ~(attempts < maxAttempts)
    /\ pc' = "thrown"
    /\ error' = "Failed to generate a valid drill. Please try again or check your game settings."
    /\ UNCHANGED <<pool, mode, startMove, attempts, rejected, lastVerdict, drill>>

(***************************************************************************)
(*                           LearningLoopService                           *)
(***************************************************************************)

\* bounds of the learning loop's exploration
MaxRetryCount == 3   \* largest retryCount passed to evaluateAttempt
MaxHistory    == 4   \* longest recentOutcomes passed to checkStopCondition

\* learningLoop.ts:12  CONTRACT_CONFIG.perfectTimeThresholdMs
perfectTimeThresholdMs == 15000
\* learningLoop.ts:13  CONTRACT_CONFIG.maxRetriesAllowed
maxRetriesAllowed == 1
\* learningLoop.ts:15  CONTRACT_CONFIG.tiltFailureLimit
tiltFailureLimit == 3

\* durations around the threshold, in ms
Durations == {0, 5000, 14999, 15000, 15001, 20000}

\* mutant: the retry that is allowed is counted one too many
evaluateAttemptLenient(isCorrect, durationMs, retryCount) ==
    IF ~isCorrect
    THEN IF retryCount > maxRetriesAllowed THEN "FAILURE" ELSE "SUCCESS_WITH_HINT"
    ELSE IF retryCount > 0 THEN "SUCCESS_WITH_HINT"
    ELSE IF durationMs <= perfectTimeThresholdMs THEN "PERFECT"
    ELSE "SLOW_SUCCESS"

\* mutant: the time threshold is exclusive
evaluateAttemptStrictTime(isCorrect, durationMs, retryCount) ==
    IF ~isCorrect
    THEN IF retryCount >= maxRetriesAllowed THEN "FAILURE" ELSE "SUCCESS_WITH_HINT"
    ELSE IF retryCount > 0 THEN "SUCCESS_WITH_HINT"
    ELSE IF durationMs < perfectTimeThresholdMs THEN "PERFECT"
    ELSE "SLOW_SUCCESS"

\* learningLoop.ts:23-49
evaluateAttempt(isCorrect, durationMs, retryCount) ==
    IF ~isCorrect
    THEN IF retryCount >= maxRetriesAllowed THEN "FAILURE" ELSE "SUCCESS_WITH_HINT"
    ELSE IF retryCount > 0 THEN "SUCCESS_WITH_HINT"
    ELSE IF durationMs <= perfectTimeThresholdMs THEN "PERFECT"
    ELSE "SLOW_SUCCESS"

\* Array.prototype.slice(-n)
SliceLast(seq, n) == SubSeq(seq, Max(1, Len(seq) - n + 1), Len(seq))

\* mutant: the first entries are taken instead of the last
checkStopConditionFirst(recentOutcomes) ==
    IF Len(recentOutcomes) < tiltFailureLimit THEN FALSE
    ELSE \A i \in 1..tiltFailureLimit : recentOutcomes[i] = "FAILURE"

\* learningLoop.ts:55-65  (the theme argument is not read)
checkStopCondition(recentOutcomes) ==
    IF Len(recentOutcomes) < tiltFailureLimit THEN FALSE
    ELSE LET lastN == SliceLast(recentOutcomes, tiltFailureLimit)
         IN  \A i \in 1..Len(lastN) : lastN[i] = "FAILURE"

NoAttempt == [isCorrect |-> FALSE, durationMs |-> 0, retryCount |-> 0]

LoopInit ==
    /\ evalArg = NoAttempt
    /\ evalOutcome = "none"
    /\ stopArg = << >>
    /\ stopResult = checkStopCondition(<< >>)

\* a caller evaluates an attempt
EvaluateAttempt ==
    \E isCorrect \in BOOLEAN, durationMs \in Durations, retryCount \in 0..MaxRetryCount :
        /\ evalArg' = [isCorrect |-> isCorrect, durationMs |-> durationMs,
                       retryCount |-> retryCount]
        /\ evalOutcome' = evaluateAttempt(isCorrect, durationMs, retryCount)
        /\ UNCHANGED <<stopArg, stopResult>>

\* a caller adds an outcome to the history it keeps and asks for the lock
CheckStopCondition ==
    /\ Len(stopArg) < MaxHistory
    /\ \E outcome \in Outcomes :
          /\ stopArg' = Append(stopArg, outcome)
          /\ stopResult' = checkStopCondition(Append(stopArg, outcome))
    /\ UNCHANGED <<evalArg, evalOutcome>>

(***************************************************************************)
(*                      App: choosing a training mode                      *)
(***************************************************************************)

\* bounds of the application's exploration
MaxSelects == 1   \* handleModeSelect calls per behaviour

\* App.tsx:31  the time controls the dashboard offers
TimeControls == {"rapid", "blitz", "classical"}

\* ChessGame.timeControl of the catalogue's games, as the importers set it
TimeControlOf ==
    [bad       |-> "unknown",
     nomoves   |-> "rapid",
     short3    |-> "rapid",
     shuffle14 |-> "blitz",
     quiet12   |-> "blitz",
     long24    |-> "classical",
     cut20     |-> "rapid",
     cut21     |-> "rapid",
     refused16 |-> "bullet",
     anderssen |-> "classical"]

\* App.tsx:28  the game collections the application is started with: none, one
\* of each kind, and mixtures of usable and unusable games
RawGameSets ==
    { {}, {"short3"}, {"bad"}, {"refused16"}, {"long24"}, {"anderssen"},
      {"bad", "quiet12"}, {"short3", "nomoves"}, {"shuffle14", "long24"},
      {"short3", "anderssen", "refused16"} }

\* App.tsx:148
EligibleGames ==
    {id \in rawGames : TimeControlOf[id] \in selectedTimeControls \/ TimeControlOf[id] = "unknown"}

\* mutant: the thresholds belong to the lower part
SelectedModeInclusive(m, r) ==
    IF m # "ANY" THEN m
    ELSE IF r <= 40 THEN "CRITICAL_POSITION"
    ELSE IF r <= 65 THEN "RANDOM_MOMENT"
    ELSE IF r <= 85 THEN "START_FROM_MOVE"
    ELSE "ENDGAME_FINISH"

\* App.tsx:156-163  the mode chosen for Math.random() = r / 100
SelectedMode(m, r) ==
    IF m # "ANY" THEN m
    ELSE IF r < 40 THEN "CRITICAL_POSITION"
    ELSE IF r < 65 THEN "RANDOM_MOMENT"
    ELSE IF r < 85 THEN "START_FROM_MOVE"
    ELSE "ENDGAME_FINISH"

\* values of Math.random() * 100 on both sides of each threshold
Randoms == {0, 39, 40, 64, 65, 84, 85, 99}

\* Math.random() was not called
NoDraw == 100

\* App.tsx:271-281  the buttons of the mode selection: mode and options.startMove
ModeButtons ==
    {<<"ANY", 0>>, <<"RANDOM_MOMENT", 0>>, <<"CRITICAL_POSITION", 0>>,
     <<"START_FROM_MOVE", 6>>, <<"START_FROM_MOVE", 10>>, <<"START_FROM_MOVE", 14>>,
     <<"ENDGAME_FINISH", 0>>}

\* App.tsx:167  a FEN string is never empty and never the word 'start' or
\* 'startpos'; the test is met by a missing drill only
InvalidDrill(d) == d = NoDrill

\* App.tsx:207  the loading screen replaces every view, buttons included
ButtonsShown == loadingState = "null" /\ handler = "none"

AppInit ==
    /\ view = "DASHBOARD"
    /\ rawGames \in RawGameSets
    /\ selectedTimeControls = TimeControls
    /\ loadingState = "null"
    /\ toasts = {}
    /\ shown = {}
    /\ drills = {}
    /\ sessionQueue = << >>
    /\ handler = "none"
    /\ sessionTimer = FALSE
    /\ selects = 0
    /\ requested = "none"
    /\ draw = NoDraw

\* the generator before handleModeSelect has called it
GenWaiting ==
    /\ pool = {} /\ mode = "ANY" /\ startMove = 0
    /\ pc = "idle" /\ attempts = 0 /\ rejected = 0
    /\ lastVerdict = "none" /\ drill = NoDrill /\ error = ""

\* App.tsx:292  Dashboard.onTrain, and the Back buttons (266, 301, 306)
SetView ==
    /\ ButtonsShown
    /\ \E v \in {"DASHBOARD", "MODE_SELECTION"} :
          /\ v # view
          /\ view \in {"DASHBOARD", "MODE_SELECTION", "TRAINING"}
          /\ (v = "MODE_SELECTION") => view = "DASHBOARD"
          /\ view' = v
    /\ UNCHANGED <<rawGames, selectedTimeControls, loadingState, toasts, shown,
                   drills, sessionQueue, handler, sessionTimer, selects,
                   requested, draw>>
    /\ UNCHANGED genVars

\* App.tsx:292  Dashboard.onToggleTimeControl
ToggleTimeControl ==
    /\ ButtonsShown
    /\ view = "DASHBOARD"
    /\ \E tc \in TimeControls :
          selectedTimeControls' = IF tc \in selectedTimeControls
                                  THEN selectedTimeControls \ {tc}
                                  ELSE selectedTimeControls \cup {tc}
    /\ UNCHANGED <<view, rawGames, loadingState, toasts, shown,
                   drills, sessionQueue, handler, sessionTimer, selects,
                   requested, draw>>
    /\ UNCHANGED genVars

\* App.tsx:146-154  handleModeSelect when no game is eligible: the loading
\* state set at 147 is cleared at 151 within the same event
HandleModeSelectNoGames ==
    /\ ButtonsShown
    /\ view = "MODE_SELECTION"
    /\ selects < MaxSelects
    /\ EligibleGames = {}
    /\ loadingState' = "null"
    /\ toasts' = toasts \cup {"No games found."}
    /\ shown' = shown \cup {"No games found."}
    /\ selects' = selects + 1
    /\ UNCHANGED <<view, rawGames, selectedTimeControls, drills, sessionQueue,
                   handler, sessionTimer, requested, draw>>
    /\ UNCHANGED genVars

\* App.tsx:146-165  handleModeSelect up to the call of generateDrillFromMode
HandleModeSelectCall ==
    /\ ButtonsShown
    /\ view = "MODE_SELECTION"
    /\ selects < MaxSelects
    /\ EligibleGames # {}
    /\ \E button \in ModeButtons :
          \E r \in IF button[1] = "ANY" THEN Randoms ELSE {NoDraw} :
             /\ requested' = button[1]
             /\ draw' = r
             /\ mode' = SelectedMode(button[1], r)
             /\ startMove' = button[2]
    /\ pool' = EligibleGames
    /\ pc' = "call"
    /\ attempts' = 0 /\ rejected' = 0 /\ lastVerdict' = "none"
    /\ drill' = NoDrill /\ error' = ""
    /\ loadingState' = "Preparing training session..."
    /\ handler' = "handleModeSelect"
    /\ selects' = selects + 1
    /\ UNCHANGED <<view, rawGames, selectedTimeControls, toasts, shown, drills,
                   sessionQueue, sessionTimer>>

\* App.tsx:165-183  generateDrillFromMode has returned: the test of the
\* drill, then startSessionWithDrill
HandleModeSelectReturn ==
    /\ handler = "handleModeSelect"
    /\ pc = "returned"
    /\ IF InvalidDrill(drill)
       THEN /\ loadingState' = "null"
            /\ toasts' = toasts \cup {"Could not generate valid drill."}
            /\ shown' = shown \cup {"Could not generate valid drill."}
            /\ UNCHANGED <<drills, sessionQueue, sessionTimer>>
       ELSE /\ drills' = drills \cup {drill.id}
            /\ sessionQueue' = <<drill.id>>
            /\ sessionTimer' = TRUE
            /\ UNCHANGED <<loadingState, toasts, shown>>
    /\ handler' = "none"
    /\ requested' = "none" /\ draw' = NoDraw
    /\ pc' = "idle"
    /\ UNCHANGED <<view, rawGames, selectedTimeControls, selects>>
    /\ UNCHANGED <<pool, mode, startMove, attempts, rejected, lastVerdict, drill, error>>

\* App.tsx:165  generateDrillFromMode has thrown: nothing catches the Error,
\* the handler ends there and the state set before the call stays
HandleModeSelectThrow ==
    /\ handler = "handleModeSelect"
    /\ pc = "thrown"
    /\ handler' = "none"
    /\ requested' = "none" /\ draw' = NoDraw
    /\ pc' = "idle"
    /\ UNCHANGED <<view, rawGames, selectedTimeControls, loadingState, toasts, shown,
                   drills, sessionQueue, sessionTimer, selects>>
    /\ UNCHANGED <<pool, mode, startMove, attempts, rejected, lastVerdict, drill, error>>

\* App.tsx:182  the timeout of startSessionWithDrill
SessionTimer ==
    /\ sessionTimer
    /\ handler = "none"
    /\ sessionTimer' = FALSE
    /\ loadingState' = "null"
    /\ view' = "TRAINING"
    /\ UNCHANGED <<rawGames, selectedTimeControls, toasts, shown, drills,
                   sessionQueue, handler, selects, requested, draw>>
    /\ UNCHANGED genVars

\* App.tsx:64  the timeout of showToast
ToastTimer ==
    /\ handler = "none"
    /\ \E t \in toasts : toasts' = toasts \ {t}
    /\ UNCHANGED <<view, rawGames, selectedTimeControls, loadingState, shown,
                   drills, sessionQueue, handler, sessionTimer, selects,
                   requested, draw>>
    /\ UNCHANGED genVars

(***************************************************************************)
(*                               DrillPlayer                               *)
(*                                                                         *)
(* The repository holds two DrillPlayer files: src/components/             *)
(* DrillPlayer.tsx ("src") and a second one with a Skip button             *)
(* ("part_001").  One presentation of one drill is modelled, from mount    *)
(* to unmount; the session queue holds this drill only (App.tsx:179), so   *)
(* onNext unmounts the player.  Feedback texts and the board's colour are  *)
(* display only and left out.                                              *)
(***************************************************************************)

\* bound of the player's exploration
MaxWrong == 2    \* wrong moves per presentation

Variants == {"src", "part_001"}

\* mutant: the hint is not counted
SuccessRetryCountNoHint(hint, retries) == retries

\* DrillPlayer.tsx:146, part_001:108  the retry count handed to evaluateAttempt
SuccessRetryCount(hint, retries) == IF hint THEN 1 ELSE retries

\* DrillPlayer.tsx:239-249, part_001:168-180  Give Up and Hint are on screen
HelpButtonsShown ==
    /\ mounted /\ ~fatalError /\ ~coachMsg
    /\ variant = "src" => playerOutcome = "null"

\* DrillPlayer.tsx:86, part_001:65  onPieceDrop goes on
BoardAccepts ==
    /\ mounted /\ ~fatalError
    /\ playerOutcome = "null" /\ ~isProcessing

Completion(o, origin) == [outcome |-> o, origin |-> origin, helped |-> helped]

\* DrillPlayer.tsx:21-71, part_001:20-62  the state after mount and the effect
PlayerInit ==
    /\ variant \in Variants
    /\ mounted = TRUE
    /\ fatalError \in BOOLEAN
    /\ currentMoveIndex = 0
    /\ playerRetryCount = 0
    /\ playerHintUsed = FALSE
    /\ playerOutcome = "null"
    /\ isProcessing = FALSE
    /\ isCoaching = FALSE
    /\ coachMsg = FALSE
    /\ coachPending = FALSE
    /\ helped = FALSE
    /\ completions = << >>

\* DrillPlayer.tsx:124-137, part_001:88-99  a correct move that is not the
\* last of the solution
PieceDropCorrect ==
    /\ BoardAccepts
    /\ currentMoveIndex + 1 < LOOKAHEAD
    /\ currentMoveIndex' = currentMoveIndex + 1
    /\ UNCHANGED <<variant, mounted, fatalError, playerRetryCount, playerHintUsed,
                   playerOutcome, isProcessing, isCoaching, coachMsg, coachPending,
                   helped, completions>>
    /\ UNCHANGED loopVars

\* DrillPlayer.tsx:124-133, 144-153, part_001:88-95, 106-114  the last correct
\* move: handleSuccess up to the request to the coach
PieceDropLast ==
    /\ BoardAccepts
    /\ currentMoveIndex + 1 >= LOOKAHEAD
    /\ currentMoveIndex' = currentMoveIndex + 1
    /\ \E durationMs \in Durations :
          LET retries      == SuccessRetryCount(playerHintUsed, playerRetryCount)
              finalOutcome == evaluateAttempt(TRUE, durationMs, retries)
          IN  /\ evalArg' = [isCorrect |-> TRUE, durationMs |-> durationMs,
                             retryCount |-> retries]
              /\ evalOutcome' = finalOutcome
              /\ playerOutcome' = finalOutcome
              /\ completions' = Append(completions, Completion(finalOutcome, "success"))
    /\ isProcessing' = (variant = "part_001")
    /\ isCoaching' = (variant = "src")
    /\ coachPending' = TRUE
    /\ UNCHANGED <<variant, mounted, fatalError, playerRetryCount, playerHintUsed,
                   coachMsg, helped>>
    /\ UNCHANGED <<stopArg, stopResult>>

\* DrillPlayer.tsx:138-141, 155-164, part_001:100-103, 123-132  a legal move
\* that is not the expected one
PieceDropWrong ==
    /\ BoardAccepts
    /\ currentMoveIndex < LOOKAHEAD
    /\ playerRetryCount < MaxWrong
    /\ playerRetryCount' = playerRetryCount + 1
    /\ helped' = TRUE
    /\ UNCHANGED <<variant, mounted, fatalError, currentMoveIndex, playerHintUsed,
                   playerOutcome, isProcessing, isCoaching, coachMsg, coachPending,
                   completions>>
    /\ UNCHANGED loopVars

\* DrillPlayer.tsx:247, part_001:178  the Hint button
Hint ==
    /\ HelpButtonsShown
    /\ playerHintUsed' = TRUE
    /\ helped' = (helped \/ playerOutcome = "null")
    /\ UNCHANGED <<variant, mounted, fatalError, currentMoveIndex, playerRetryCount,
                   playerOutcome, isProcessing, isCoaching, coachMsg, coachPending,
                   completions>>
    /\ UNCHANGED loopVars

\* DrillPlayer.tsx:166-172  handleGiveUp; part_001:177  the Give Up button,
\* which sets the outcome only
GiveUp ==
    /\ HelpButtonsShown
    /\ playerOutcome' = "FAILURE"
    /\ IF variant = "src"
       THEN /\ completions' = Append(completions, Completion("FAILURE", "give_up"))
            /\ isCoaching' = TRUE
            /\ coachPending' = TRUE
       ELSE UNCHANGED <<completions, isCoaching, coachPending>>
    /\ UNCHANGED <<variant, mounted, fatalError, currentMoveIndex, playerRetryCount,
                   playerHintUsed, isProcessing, coachMsg, helped>>
    /\ UNCHANGED loopVars

\* part_001:134, 136, 145  handleSkip: onComplete(ABANDONED), then onNext;
\* the button is in the header and on the error screen
Skip ==
    /\ variant = "part_001"
    /\ mounted
    /\ completions' = Append(completions, Completion("ABANDONED", "skip"))
    /\ mounted' = FALSE
    /\ UNCHANGED <<variant, fatalError, currentMoveIndex, playerRetryCount,
                   playerHintUsed, playerOutcome, isProcessing, isCoaching, coachMsg,
                   coachPending, helped>>
    /\ UNCHANGED loopVars

\* App.tsx:306  the Back button over the player, always there; the buttons
\* that call onNext only (DrillPlayer.tsx:178, 237, 242, part_001:173) have
\* the same effect on the player
Leave ==
    /\ mounted
    /\ mounted' = FALSE
    /\ UNCHANGED <<variant, fatalError, currentMoveIndex, playerRetryCount,
                   playerHintUsed, playerOutcome, isProcessing, isCoaching, coachMsg,
                   coachPending, helped, completions>>
    /\ UNCHANGED loopVars

\* DrillPlayer.tsx:76-82, part_001:117-120  generateCoachResponse settles, with
\* a response or with an error
CoachSettles ==
    /\ coachPending
    /\ coachPending' = FALSE
    /\ \E answered \in BOOLEAN :
          coachMsg' = IF mounted THEN answered ELSE coachMsg
    /\ isProcessing' = IF mounted THEN FALSE ELSE isProcessing
    /\ isCoaching' = IF mounted THEN FALSE ELSE isCoaching
    /\ UNCHANGED <<variant, mounted, fatalError, currentMoveIndex, playerRetryCount,
                   playerHintUsed, playerOutcome, helped, completions>>
    /\ UNCHANGED loopVars

(***************************************************************************)
(*                                 logger                                  *)
(***************************************************************************)

\* bound of the logger's exploration
MaxLogs == 52    \* logEvent calls per behaviour

\* logger.ts:12
LOG_BUFFER_SIZE == 50

\* Array.prototype.unshift
Unshift(arr, entry) == <<entry>> \o arr

\* Array.prototype.pop, the array it leaves
Pop(arr) == IF arr = << >> THEN arr ELSE SubSeq(arr, 1, Len(arr) - 1)

\* logger.ts:28-31  the buffer after logEvent
Logged(buf, entry) ==
    IF Len(Unshift(buf, entry)) > LOG_BUFFER_SIZE
    THEN Pop(Unshift(buf, entry))
    ELSE Unshift(buf, entry)

\* mutant: the buffer itself is handed out
getRecentLogsAlias(buf) == [array |-> "logBuffer", items |-> buf]

\* logger.ts:34  [...logBuffer], a new array with the same entries
getRecentLogs(buf) == [array |-> "copy", items |-> buf]

NoArray == [array |-> "none", items |-> << >>]

LoggerInit ==
    /\ logBuffer = << >>
    /\ logSerial = 0
    /\ logOp = "none"
    /\ logBefore = << >>
    /\ logReturned = NoArray

\* logger.ts:15-32
LogEvent ==
    /\ logSerial < MaxLogs
    /\ logSerial' = logSerial + 1
    /\ logBuffer' = Logged(logBuffer, logSerial + 1)
    /\ logOp' = "logEvent"
    /\ logBefore' = logBuffer
    /\ logReturned' = NoArray

\* logger.ts:36-38
ClearLogs ==
    /\ logBuffer' = << >>
    /\ logOp' = "clearLogs"
    /\ logBefore' = logBuffer
    /\ logReturned' = NoArray
    /\ UNCHANGED logSerial

\* logger.ts:34
GetRecentLogs ==
    /\ logReturned' = getRecentLogs(logBuffer)
    /\ logOp' = "getRecentLogs"
    /\ logBefore' = logBuffer
    /\ UNCHANGED <<logBuffer, logSerial>>

\* the caller removes the last entry of the array it was given; this changes
\* the buffer if and only if that array is the buffer
MutateReturned ==
    /\ logOp \in {"getRecentLogs", "mutate"}
    /\ logReturned.items # << >>
    /\ logReturned' = [logReturned EXCEPT !.items = Pop(@)]
    /\ logBuffer' = IF logReturned.array = "logBuffer" THEN Pop(logBuffer) ELSE logBuffer
    /\ logOp' = "mutate"
    /\ logBefore' = logBuffer
    /\ UNCHANGED logSerial

(***************************************************************************)
(*                             Specifications                              *)
(***************************************************************************)

\* a component that is not exercised stays as constructed
SchedIdle == SchedInit /\ clock = 0
SkillIdle == SkillInit /\ skill = createInitialSkill
GenIdle   == GenInit /\ pool = {} /\ mode = "ANY"
LoopIdle  == LoopInit
AppIdle   == AppInit /\ rawGames = {}
PlayerIdle == PlayerInit /\ variant = "src" /\ ~fatalError
LoggerIdle == LoggerInit

SchedNext == CalculateNext /\ UNCHANGED <<skillVars, genVars, loopVars, appVars, playerVars, loggerVars>>
SkillNext == UpdateSkill /\ UNCHANGED <<schedVars, genVars, loopVars, appVars, playerVars, loggerVars>>
GenNext ==
    \/ CallEmpty     /\ UNCHANGED <<schedVars, skillVars, loopVars, appVars, playerVars, loggerVars>>
    \/ CallEnter     /\ UNCHANGED <<schedVars, skillVars, loopVars, appVars, playerVars, loggerVars>>
    \/ AttemptDiscard /\ UNCHANGED <<schedVars, skillVars, loopVars, appVars, playerVars, loggerVars>>
    \/ AttemptReject /\ UNCHANGED <<schedVars, skillVars, loopVars, appVars, playerVars, loggerVars>>
    \/ AttemptReturn /\ UNCHANGED <<schedVars, skillVars, loopVars, appVars, playerVars, loggerVars>>
    \/ Exhausted     /\ UNCHANGED <<schedVars, skillVars, loopVars, appVars, playerVars, loggerVars>>
LoopNext ==
    \/ EvaluateAttempt    /\ UNCHANGED <<schedVars, skillVars, genVars, appVars, playerVars, loggerVars>>
    \/ CheckStopCondition /\ UNCHANGED <<schedVars, skillVars, genVars, appVars, playerVars, loggerVars>>
\* the events of the application, and within handleModeSelect the steps of
\* generateDrillFromMode (its pool is never empty there)
AppNext ==
    \/ SetView                 /\ UNCHANGED <<schedVars, skillVars, loopVars, playerVars, loggerVars>>
    \/ ToggleTimeControl       /\ UNCHANGED <<schedVars, skillVars, loopVars, playerVars, loggerVars>>
    \/ HandleModeSelectNoGames /\ UNCHANGED <<schedVars, skillVars, loopVars, playerVars, loggerVars>>
    \/ HandleModeSelectCall    /\ UNCHANGED <<schedVars, skillVars, loopVars, playerVars, loggerVars>>
    \/ CallEnter               /\ UNCHANGED <<schedVars, skillVars, loopVars, appVars, playerVars, loggerVars>>
    \/ AttemptDiscard          /\ UNCHANGED <<schedVars, skillVars, loopVars, appVars, playerVars, loggerVars>>
    \/ AttemptReject           /\ UNCHANGED <<schedVars, skillVars, loopVars, appVars, playerVars, loggerVars>>
    \/ AttemptReturn           /\ UNCHANGED <<schedVars, skillVars, loopVars, appVars, playerVars, loggerVars>>
    \/ Exhausted               /\ UNCHANGED <<schedVars, skillVars, loopVars, appVars, playerVars, loggerVars>>
    \/ HandleModeSelectReturn  /\ UNCHANGED <<schedVars, skillVars, loopVars, playerVars, loggerVars>>
    \/ HandleModeSelectThrow   /\ UNCHANGED <<schedVars, skillVars, loopVars, playerVars, loggerVars>>
    \/ SessionTimer            /\ UNCHANGED <<schedVars, skillVars, loopVars, playerVars, loggerVars>>
    \/ ToastTimer              /\ UNCHANGED <<schedVars, skillVars, loopVars, playerVars, loggerVars>>
\* one presentation of a drill; handleSuccess calls the learning loop
PlayerNext ==
    \/ PieceDropCorrect /\ UNCHANGED <<schedVars, skillVars, genVars, appVars, loggerVars>>
    \/ PieceDropLast    /\ UNCHANGED <<schedVars, skillVars, genVars, appVars, loggerVars>>
    \/ PieceDropWrong   /\ UNCHANGED <<schedVars, skillVars, genVars, appVars, loggerVars>>
    \/ Hint             /\ UNCHANGED <<schedVars, skillVars, genVars, appVars, loggerVars>>
    \/ GiveUp           /\ UNCHANGED <<schedVars, skillVars, genVars, appVars, loggerVars>>
    \/ Skip             /\ UNCHANGED <<schedVars, skillVars, genVars, appVars, loggerVars>>
    \/ Leave            /\ UNCHANGED <<schedVars, skillVars, genVars, appVars, loggerVars>>
    \/ CoachSettles     /\ UNCHANGED <<schedVars, skillVars, genVars, appVars, loggerVars>>
LoggerNext ==
    \/ LogEvent       /\ UNCHANGED <<schedVars, skillVars, genVars, loopVars, appVars, playerVars>>
    \/ ClearLogs      /\ UNCHANGED <<schedVars, skillVars, genVars, loopVars, appVars, playerVars>>
    \/ GetRecentLogs  /\ UNCHANGED <<schedVars, skillVars, genVars, loopVars, appVars, playerVars>>
    \/ MutateReturned /\ UNCHANGED <<schedVars, skillVars, genVars, loopVars, appVars, playerVars>>

InitSched == SchedInit /\ SkillIdle /\ GenIdle /\ LoopIdle /\ AppIdle /\ PlayerIdle /\ LoggerIdle
InitSkill == SchedIdle /\ SkillInit /\ GenIdle /\ LoopIdle /\ AppIdle /\ PlayerIdle /\ LoggerIdle
InitGen   == SchedIdle /\ SkillIdle /\ GenInit /\ LoopIdle /\ AppIdle /\ PlayerIdle /\ LoggerIdle
InitLoop  == SchedIdle /\ SkillIdle /\ GenIdle /\ LoopInit /\ AppIdle /\ PlayerIdle /\ LoggerIdle
InitPlayer == SchedIdle /\ SkillIdle /\ GenIdle /\ LoopIdle /\ AppIdle /\ PlayerInit /\ LoggerIdle
InitLogger == SchedIdle /\ SkillIdle /\ GenIdle /\ LoopIdle /\ AppIdle /\ PlayerIdle /\ LoggerInit
InitApp   == SchedIdle /\ SkillIdle /\ GenWaiting /\ LoopIdle /\ AppInit /\ PlayerIdle /\ LoggerIdle

\* the scheduler, the skill model, the generator, the learning loop, the
\* application's mode selection, the drill player and the logger, each driven
\* alone
SpecSched == InitSched /\ [][SchedNext]_vars
SpecSkill == InitSkill /\ [][SkillNext]_vars
SpecGen   == InitGen /\ [][GenNext]_vars
SpecLoop  == InitLoop /\ [][LoopNext]_vars
SpecApp   == InitApp /\ [][AppNext]_vars
SpecPlayer == InitPlayer /\ [][PlayerNext]_vars
SpecLogger == InitLogger /\ [][LoggerNext]_vars

(***************************************************************************)
(*                                 Claims                                  *)
(***************************************************************************)

Last(log) == log[Len(log)]
CallEnded == pc \in {"returned", "thrown"}

\* C1: when the pool is empty, or all 50 attempts are exhausted, generation
\* hands its caller a failure value; it does not raise a fault.  Stated of the
\* code: a call that ends without a Drill ends by returning.
C1_FailureIsReturned == (CallEnded /\ drill = NoDrill) => pc = "returned"

\* C2: for a non-empty pool the loop runs at most 50 iterations; every
\* iteration that ends in `continue` consumes exactly one attempt; the call
\* ends with a Drill or with the failure, and is never stuck before that.
C2_BoundedRetry ==
    /\ attempts \in 0..maxAttempts
    /\ rejected = IF pc = "returned" THEN attempts - 1 ELSE attempts
    /\ (pc = "thrown" /\ pool # {}) => (attempts = maxAttempts /\ drill = NoDrill)
    /\ pc = "returned" => drill # NoDrill
    /\ CallEnded \/ ENABLED GenNext

\* C2 witness: a non-empty pool whose 50 attempts were all rejected
C2_Exhausted ==
    /\ pc = "thrown"
    /\ pool # {}
    /\ rejected = maxAttempts
    /\ lastVerdict = "start_position"

\* C3: a returned Drill's piece placement is the starting arrangement only if
\* mode is START_FROM_MOVE and startMove is 1.
C3_StartOnlyFromMove1 ==
    (pc = "returned" /\ drill.fen.board = GLOBAL_START_BOARD)
        => (mode = "START_FROM_MOVE" /\ startMove = 1)

\* C4: every returned Drill has a solution of at least one move.
C4_SolutionNonEmpty == pc = "returned" => Len(drill.solutionSan) >= 1

\* C4 witness: a Drill whose target (ply 18 of a 12-ply game) had to be
\* brought back by the bounds check
C4_ClampedDrill ==
    /\ pc = "returned"
    /\ mode = "START_FROM_MOVE"
    /\ startMove = 10
    /\ drill.sourceGameId = "quiet12"
    /\ drill.fen.ply = 6

\* C5: after any updateSkill calls from a valid state, mastery is in [0,100]
\* and confidence is in [0,1].
C5_SkillInRange ==
    /\ skill.mastery \in 0..10000
    /\ skill.confidence \in 0..100

\* C5 witness: an update whose raw mastery exceeded 100 and whose raw
\* confidence fell below 0
C5_BothClamped ==
    /\ skillCalls > 0
    /\ RawMastery(skillPrev, skillArg.outcome, skillArg.difficulty) > 1000000000
    /\ RawConfidence(skillPrev, skillArg.outcome, skillArg.difficulty) < 0
    /\ skill.mastery = 10000
    /\ skill.confidence = 0

\* C6: easeFactor is never below 1.3 in a schedule reached from
\* createInitialSchedule by calculateNext.
C6_EaseFloor == sched.easeFactor >= 130

\* C6 witness: a call whose formula value was below 1.3
C6_Floored ==
    /\ schedLog # << >>
    /\ schedPrev.easeFactor + EaseDelta(mapOutcomeToGrade(Last(schedLog))) < 130
    /\ sched.easeFactor = 130

\* C7: a failing outcome (FAILURE, ABANDONED) yields repetition 0 and
\* interval 1, whatever the schedule was.
C7_FailResets ==
    (schedLog # << >> /\ Last(schedLog) \in {"FAILURE", "ABANDONED"})
        => (sched.repetition = 0 /\ sched.interval = 1)

\* C7 witness: ABANDONED on a schedule with repetition 3 and interval 16
C7_FailAfterProgress ==
    /\ schedLog # << >>
    /\ Last(schedLog) = "ABANDONED"
    /\ schedPrev.repetition = 3
    /\ schedPrev.interval = 16
    /\ sched.interval = 1

\* C8: a passing outcome adds 1 to repetition and sets interval to 1 from
\* repetition 0, 6 from repetition 1, else round(interval * easeFactor) of the
\* schedule given, with the ease factor as it was before the call.
C8_PassInterval ==
    (schedLog # << >> /\ Last(schedLog) \in {"PERFECT", "SLOW_SUCCESS", "SUCCESS_WITH_HINT"})
        => /\ sched.repetition = schedPrev.repetition + 1
           /\ sched.interval =
                 CASE schedPrev.repetition = 0 -> 1
                   [] schedPrev.repetition = 1 -> 6
                   [] OTHER -> (schedPrev.interval * schedPrev.easeFactor + 50) \div 100

\* C8 witness: a pass from repetition >= 2 where the ease factor before and
\* after the call give different intervals
C8_OldEaseMatters ==
    /\ schedLog # << >>
    /\ Last(schedLog) \in {"PERFECT", "SLOW_SUCCESS", "SUCCESS_WITH_HINT"}
    /\ schedPrev.repetition >= 2
    /\ (schedPrev.interval * sched.easeFactor + 50) \div 100 # sched.interval

\* C9: three PERFECT in a row from createInitialSchedule give intervals
\* 1, 6, 16, ease factors 2.6 and 2.7 after the first two, repetition 1, 2, 3.
C9_ThreePerfect ==
    /\ schedLog = <<"PERFECT">>
          => (sched.interval = 1 /\ sched.repetition = 1 /\ sched.easeFactor = 260)
    /\ schedLog = <<"PERFECT", "PERFECT">>
          => (sched.interval = 6 /\ sched.repetition = 2 /\ sched.easeFactor = 270)
    /\ schedLog = <<"PERFECT", "PERFECT", "PERFECT">>
          => (sched.interval = 16 /\ sched.repetition = 3
              /\ schedPrev.easeFactor = 270 /\ schedPrev.interval = 6)

\* C9 witness: the third PERFECT has been scheduled
C9_ThirdPerfect == schedLog = <<"PERFECT", "PERFECT", "PERFECT">> /\ sched.interval = 16

\* C10: on a pass and on a fail easeFactor' = max(1.3, easeFactor + d) with d =
\* +0.10, 0, -0.14, -0.54, -0.80 for PERFECT, SLOW_SUCCESS, SUCCESS_WITH_HINT,
\* FAILURE, ABANDONED; a fail does not reset it to 2.5.
C10_EaseFormula ==
    schedLog # << >> =>
        LET d == CASE Last(schedLog) = "PERFECT"           -> 10
                   [] Last(schedLog) = "SLOW_SUCCESS"      -> 0
                   [] Last(schedLog) = "SUCCESS_WITH_HINT" -> -14
                   [] Last(schedLog) = "FAILURE"           -> -54
                   [] Last(schedLog) = "ABANDONED"         -> -80
        IN  sched.easeFactor = Max(130, schedPrev.easeFactor + d)

\* C10 witness: a FAILURE that lowered an ease factor other than the default
\* by 0.54, away from 2.5
C10_FailAdjusts ==
    /\ schedLog # << >>
    /\ Last(schedLog) = "FAILURE"
    /\ schedPrev.easeFactor = 270
    /\ sched.easeFactor = 216

\* C11: calculateNext sets nextDueAt to the time of the call plus the interval
\* this call computed, in days (24 hours each); so the drill is due at least
\* one full day after the call.
C11_DueAfterInterval ==
    schedLog # << >> =>
        /\ sched.nextDueAt = clock + sched.interval * 24
        /\ sched.nextDueAt >= clock + 24

\* C11 witness: a call made after time 0 that changed the interval to 16 days
C11_DueInSixteenDays ==
    /\ schedLog # << >>
    /\ clock > 0
    /\ schedPrev.interval = 6
    /\ sched.interval = 16
    /\ sched.nextDueAt = clock + 384

\* C12: an incorrect attempt is FAILURE when retryCount >= 1 and
\* SUCCESS_WITH_HINT otherwise, whatever durationMs is.
C12_IncorrectAttempt ==
    (evalOutcome # "none" /\ ~evalArg.isCorrect)
        => evalOutcome = IF evalArg.retryCount >= 1 THEN "FAILURE" ELSE "SUCCESS_WITH_HINT"

\* C12 witness: an incorrect attempt at exactly one retry, a fast one
C12_FailureAtLimit ==
    /\ evalOutcome = "FAILURE"
    /\ ~evalArg.isCorrect
    /\ evalArg.retryCount = 1
    /\ evalArg.durationMs = 0

\* C13: a correct attempt is SUCCESS_WITH_HINT when retryCount > 0; with no
\* retry it is PERFECT iff durationMs <= 15000 and SLOW_SUCCESS otherwise.
C13_CorrectAttempt ==
    (evalOutcome # "none" /\ evalArg.isCorrect)
        => evalOutcome = IF evalArg.retryCount > 0 THEN "SUCCESS_WITH_HINT"
                         ELSE IF evalArg.durationMs <= 15000 THEN "PERFECT"
                         ELSE "SLOW_SUCCESS"

\* C13 witness: a correct first attempt at exactly 15000 ms
C13_PerfectAtThreshold ==
    /\ evalOutcome = "PERFECT"
    /\ evalArg.isCorrect
    /\ evalArg.retryCount = 0
    /\ evalArg.durationMs = 15000

\* C14: the lock is given iff the history has at least 3 entries and its last
\* 3 are all FAILURE; earlier entries do not matter.
C14_LockOnThreeFailures ==
    stopResult =
        (/\ Len(stopArg) >= 3
         /\ \A i \in (Len(stopArg) - 2)..Len(stopArg) : stopArg[i] = "FAILURE")

\* C14 witness: [PERFECT, FAILURE, FAILURE, FAILURE] locks the theme
C14_LockedAfterPerfect ==
    /\ stopArg = <<"PERFECT", "FAILURE", "FAILURE", "FAILURE">>
    /\ stopResult

\* the scores the outcomes stand for, in millionths
C15_ActualScore ==
    CASE skillArg.outcome = "PERFECT"           -> 1000000
      [] skillArg.outcome = "SLOW_SUCCESS"      -> 850000
      [] skillArg.outcome = "SUCCESS_WITH_HINT" -> 500000
      [] skillArg.outcome = "FAILURE"           -> 0
      [] skillArg.outcome = "ABANDONED"         -> 0

\* logistic expectancy of the previous mastery against clamp(difficulty * 20, 10, 100)
C15_ExpectedScore ==
    getExpectedScore(skillPrev.mastery, Max(10, Min(100, skillArg.difficulty * 20)))

\* clamp(mastery + kFactor * (actualScore - expectedScore), 0, 100) of the last
\* update, in 10^-7 points; kFactor = 20 * (1 - confidence * 0.5) in tenths
C15_ClampedMastery ==
    LET kFactor == 200 - skillPrev.confidence
        raw     == skillPrev.mastery * 100000 + kFactor * (C15_ActualScore - C15_ExpectedScore)
    IN  Max(0, Min(1000000000, raw))

\* C15 as stated: updateSkill returns exactly the clamped value
C15_MasteryUnrounded ==
    skillCalls > 0 => skill.mastery * 100000 = C15_ClampedMastery

\* C15: updateSkill returns clamp(mastery + kFactor * (actualScore -
\* expectedScore), 0, 100) rounded to two decimals, with kFactor between 10 and
\* 20, the actual score 1.0 / 0.85 / 0.5 / 0 / 0 by outcome and the expected
\* score the logistic expectancy against clamp(difficulty * 20, 10, 100).
C15_MasteryRounded ==
    skillCalls > 0 =>
        /\ skill.mastery = (C15_ClampedMastery + 50000) \div 100000
        /\ (200 - skillPrev.confidence) \in 100..200

\* C15 witness: SLOW_SUCCESS at difficulty 3 from the initial skill; the clamped
\* value is not a whole number of hundredths
C15_SlowSuccessFromInitial ==
    /\ skillCalls = 1
    /\ skillPrev = createInitialSkill
    /\ skillArg = [outcome |-> "SLOW_SUCCESS", difficulty |-> 3]
    /\ C15_ClampedMastery % 100000 # 0
    /\ skill.mastery = (C15_ClampedMastery + 50000) \div 100000

\* C16: confidence falls by 0.1 when |actualScore - expectedScore| > 0.5 and
\* rises by 0.05 otherwise, clamped to [0, 1]; at 1 it stays 1 on an expected
\* result and at 0 it stays 0 on a surprise.
C16_ConfidenceStep ==
    skillCalls > 0 =>
        LET surprise == Abs(C15_ActualScore - C15_ExpectedScore)
            step     == IF surprise > 500000 THEN -10 ELSE 5
        IN  /\ skill.confidence = Max(0, Min(100, skillPrev.confidence + step))
            /\ (skillPrev.confidence = 100 /\ surprise <= 500000) => skill.confidence = 100
            /\ (skillPrev.confidence = 0 /\ surprise > 500000) => skill.confidence = 0

\* C16 witness: PERFECT at even odds (mastery 40 against rating 40) is a
\* surprise of exactly 0.5 and raised the confidence
C16_PerfectAtEvenOdds ==
    /\ skillCalls > 0
    /\ skillPrev = createInitialSkill
    /\ skillArg = [outcome |-> "PERFECT", difficulty |-> 2]
    /\ Abs(C15_ActualScore - C15_ExpectedScore) = 500000
    /\ skill.confidence = skillPrev.confidence + 5

\* C17: streak' = streak + 1 for PERFECT and SLOW_SUCCESS and 0 for every
\* other outcome (step form; the trailing-run form follows by induction).
C17_StreakStep ==
    skillCalls > 0 =>
        skill.streak = IF skillArg.outcome \in {"PERFECT", "SLOW_SUCCESS"}
                       THEN skillPrev.streak + 1
                       ELSE 0

\* C17 witness: a hint ended a streak of at least 4
C17_HintEndsStreak ==
    /\ skillCalls > 0
    /\ skillArg.outcome = "SUCCESS_WITH_HINT"
    /\ skillPrev.streak >= 4
    /\ skill.streak = 0

\* the games of the pool all have fewer than 12 plies
C18_OnlyShortGames == pool # {} /\ \A id \in pool : Len(Games[id].history) < 12

\* C18: no Drill comes from a game with fewer than 12 plies; on a pool of only
\* such games every attempt is rejected and the call ends in the failure,
\* whatever the mode.
C18_MinimumPlies ==
    /\ pc = "returned" => Len(Games[drill.sourceGameId].history) >= 12
    /\ C18_OnlyShortGames =>
          /\ pc # "returned" /\ drill = NoDrill
          /\ rejected = attempts
          /\ (pc = "loop" /\ attempts = 50) => ENABLED Exhausted

\* C18 witness: the pool of one 3-ply game, failed after 50 rejections
C18_ThreePlyPoolFails ==
    /\ pool = {"short3"}
    /\ mode = "ENDGAME_FINISH"
    /\ pc = "thrown"
    /\ attempts = 50
    /\ lastVerdict = "too_short"

\* C19: a game that cannot be parsed or has no moves is discarded and the
\* loop goes on: the call fails only when the attempts are used up, and no
\* returned Drill has such a game as its source.
C19_MalformedDiscarded ==
    /\ pc = "returned" =>
          /\ Games[drill.sourceGameId].parses
          /\ Len(Games[drill.sourceGameId].history) > 0
    /\ lastVerdict \in {"parse_error", "no_moves"} =>
          /\ pc \in {"loop", "thrown"}
          /\ pc = "thrown" => attempts = 50

\* C19 witness: a pool of the unparseable game and a game every target of
\* which is accepted returned a Drill after rejections, which therefore were
\* discards of the unparseable game
C19_ReturnedAfterDiscard ==
    /\ pool = {"bad", "long24"}
    /\ pc = "returned"
    /\ rejected >= 2
    /\ drill.sourceGameId = "long24"
    /\ \A chosen \in TargetChoices(mode, startMove, Games["long24"].history) :
          TargetVerdict(Games["long24"], mode, chosen) = "ok"

\* handleModeSelect has run and generateDrillFromMode failed in it
C20_GenerationFailed == handler = "none" /\ selects > 0 /\ error # ""

\* C20: when generation fails, after handleModeSelect has run the loading
\* state is cleared and an error has been shown to the learner.
C20_FailureSurfaced ==
    C20_GenerationFailed =>
        /\ loadingState = "null"
        /\ shown # {}

\* C21: the target index finally used lies in [0, historyLength - 6] and the
\* returned position is the one after exactly that many plies of the source
\* game: the move played from it is the game's ply at that index.
C21_TargetInRange ==
    pc = "returned" =>
        LET history == Games[drill.sourceGameId].history
            target  == drill.fen.ply
        IN  /\ target \in 0..(Len(history) - 6)
            /\ drill.fen = FenAt(Games[drill.sourceGameId], target)
            /\ drill.playedMoveSan = history[target + 1]

\* C21 witness: move 14 asked of a 24-ply game: index 26 is clamped to 18 and
\* 6 plies are undone
C21_ClampedToEighteen ==
    /\ pc = "returned"
    /\ mode = "START_FROM_MOVE" /\ startMove = 14
    /\ drill.sourceGameId = "long24"
    /\ drill.fen.ply = 18
    /\ drill.playedMoveSan = HistoryLong24[19]

\* the plies i with 12 <= i < historyLength - 8 of the returned drill's game
\* whose notation has a capture, check or mate sign
C22_Marked ==
    LET history == Games[drill.sourceGameId].history
    IN  {i \in 0..(Len(history) - 1) :
            /\ 12 <= i /\ i < Len(history) - 8
            /\ \E k \in 1..Len(history[i + 1]) : history[i + 1][k] \in {"x", "+", "#"}}

\* C22: in CRITICAL_POSITION mode the target is one of the marked plies, and
\* the midpoint floor(historyLength / 2) iff there is none; the theme is
\* tactics in both cases.
C22_CriticalTarget ==
    (pc = "returned" /\ mode = "CRITICAL_POSITION") =>
        /\ drill.theme = "tactics"
        /\ C22_Marked # {} => drill.fen.ply \in C22_Marked
        /\ C22_Marked = {} =>
              drill.fen.ply = Len(Games[drill.sourceGameId].history) \div 2

\* C22 witness: a drill at a marked ply of the 47-ply game
C22_MarkedPlyChosen ==
    /\ pc = "returned" /\ mode = "CRITICAL_POSITION"
    /\ drill.sourceGameId = "anderssen"
    /\ Cardinality(C22_Marked) >= 2
    /\ drill.fen.ply \in C22_Marked

\* a drill at the midpoint of a game without marked plies
C22_MidpointFallback ==
    /\ pc = "returned" /\ mode = "CRITICAL_POSITION"
    /\ C22_Marked = {}
    /\ drill.fen.ply = 12

\* C23: handleModeSelect calls the generator with one of the four concrete
\* modes, never with ANY; for ANY the draw r decides: r < 0.4
\* CRITICAL_POSITION, r < 0.65 RANDOM_MOMENT, r < 0.85 START_FROM_MOVE, else
\* ENDGAME_FINISH; any other request is passed on as it is.
C23_AnyPartition ==
    handler = "handleModeSelect" =>
        /\ mode \in {"CRITICAL_POSITION", "RANDOM_MOMENT", "START_FROM_MOVE", "ENDGAME_FINISH"}
        /\ requested # "ANY" => mode = requested
        /\ requested = "ANY" =>
              /\ draw \in 0..99
              /\ (draw < 40) <=> (mode = "CRITICAL_POSITION")
              /\ (40 <= draw /\ draw < 65) <=> (mode = "RANDOM_MOMENT")
              /\ (65 <= draw /\ draw < 85) <=> (mode = "START_FROM_MOVE")
              /\ (85 <= draw) <=> (mode = "ENDGAME_FINISH")

\* C23 witness: ANY with r = 0.4 runs the generator in RANDOM_MOMENT mode
C23_DrawAtFirstThreshold ==
    /\ handler = "handleModeSelect"
    /\ requested = "ANY" /\ draw = 40
    /\ mode = "RANDOM_MOMENT"
    /\ pc = "loop"

\* C24: every returned Drill has a solution of exactly 6 plies, the source
\* game's plies targetIndex .. targetIndex + 5 in order, and its playedMoveSan
\* is the first of them.
C24_SixPlySolution ==
    pc = "returned" =>
        LET history == Games[drill.sourceGameId].history
            target  == drill.fen.ply
        IN  /\ Len(drill.solutionSan) = 6
            /\ \A k \in 1..6 : drill.solutionSan[k] = history[target + k]
            /\ drill.playedMoveSan = drill.solutionSan[1]

\* C24 witness: the endgame drill of the 24-ply game starts at ply 4 and its
\* solution ends at ply 10, well before the end of the game
C24_SixOfTwenty ==
    /\ pc = "returned"
    /\ mode = "ENDGAME_FINISH"
    /\ drill.sourceGameId = "long24"
    /\ drill.fen.ply = 4
    /\ Len(drill.solutionSan) = 6
    /\ drill.solutionSan[6] = HistoryLong24[10]

\* the games of the pool all have 20 plies or fewer, and some game is there
C25_OnlyUpToTwenty == pool # {} /\ \A id \in pool : Len(Games[id].history) <= 20

\* C25: in ENDGAME_FINISH mode a game of 20 plies or fewer never yields a
\* Drill: a game of 12..20 plies is rejected for the starting position; a pool
\* of such games only uses up the 50 attempts and fails.
C25_EndgameNeedsTwentyOne ==
    mode = "ENDGAME_FINISH" =>
        /\ pc = "returned" => Len(Games[drill.sourceGameId].history) > 20
        /\ C25_OnlyUpToTwenty =>
              /\ pc # "returned" /\ drill = NoDrill
              /\ rejected = attempts
              /\ lastVerdict \in {"none", "parse_error", "no_moves", "too_short", "start_position"}
              /\ pc = "thrown" => attempts = 50
        /\ \A id \in pool :
              Len(Games[id].history) \in 12..20 =>
                  TargetVerdict(Games[id], mode, Max(0, Len(Games[id].history) - 20))
                      = "start_position"

\* C25 witness: the pool of the 20-ply game and the 12-ply game failed after
\* 50 rejections for the starting position
C25_TwentyPlyPoolFails ==
    /\ mode = "ENDGAME_FINISH"
    /\ pool = {"cut20", "quiet12"}
    /\ pc = "thrown"
    /\ attempts = 50
    /\ lastVerdict = "start_position"

\* the same game with one ply more gives a Drill at ply 1
C25_TwentyOnePlies ==
    /\ mode = "ENDGAME_FINISH"
    /\ pc = "returned"
    /\ drill.sourceGameId = "cut21"
    /\ drill.fen.ply = 1

\* C26: after the first call interval >= 1; repetition >= 2 implies
\* interval >= 6; a passing call never returns a shorter interval than the
\* one it was given.
C26_IntervalInvariants ==
    schedLog # << >> =>
        /\ sched.interval >= 1
        /\ sched.repetition >= 2 => sched.interval >= 6
        /\ Last(schedLog) \in {"PERFECT", "SLOW_SUCCESS", "SUCCESS_WITH_HINT"}
              => sched.interval >= schedPrev.interval

\* C26 witness: three passes with a hint: intervals 1, 6, 13 while the ease
\* factor falls to 2.08
C26_HintRun ==
    /\ schedLog = <<"SUCCESS_WITH_HINT", "SUCCESS_WITH_HINT", "SUCCESS_WITH_HINT">>
    /\ schedPrev.interval = 6
    /\ sched.interval = 13
    /\ sched.repetition = 3
    /\ sched.easeFactor = 208

\* C27: for one presentation of a drill onComplete is called at most once,
\* whatever the order of piece drops, hint, give-up, skip and the coach's
\* response.
C27_CompletesOnce == Len(completions) <= 1

\* the player of src/components/DrillPlayer.tsx, which has no Skip button,
\* calls onComplete at most once
C27_CompletesOnceSrc == variant = "src" => Len(completions) <= 1

\* C28: a completed solution is reported as SUCCESS_WITH_HINT when the learner
\* took the hint or played a wrong move before, and as PERFECT or SLOW_SUCCESS
\* only when they did neither.
C28_HelpedSuccess ==
    \A i \in 1..Len(completions) :
        completions[i].origin = "success" =>
            /\ completions[i].helped => completions[i].outcome = "SUCCESS_WITH_HINT"
            /\ ~completions[i].helped => completions[i].outcome \in {"PERFECT", "SLOW_SUCCESS"}

\* C28 witness: the solution completed within the time for PERFECT, after the
\* hint and no wrong move
C28_FastWithHint ==
    /\ completions # << >>
    /\ completions[1].origin = "success"
    /\ completions[1].outcome = "SUCCESS_WITH_HINT"
    /\ playerHintUsed /\ playerRetryCount = 0
    /\ evalArg.durationMs = 5000

\* C29: PERFECT never lowers mastery, FAILURE and ABANDONED never raise it
\* (the rounding to two decimals included), and no update changes mastery by
\* more than 20 points.
C29_MasteryDirection ==
    skillCalls > 0 =>
        /\ skillArg.outcome = "PERFECT" => skill.mastery >= skillPrev.mastery
        /\ skillArg.outcome \in {"FAILURE", "ABANDONED"} => skill.mastery <= skillPrev.mastery
        /\ skill.mastery - skillPrev.mastery \in -2000..2000

\* C29 witness: PERFECT on the hardest drill with confidence 0 raised mastery
\* by more than 19.5 points
C29_NearTwenty ==
    /\ skillCalls > 0
    /\ skillArg = [outcome |-> "PERFECT", difficulty |-> 5]
    /\ skillPrev.confidence = 0
    /\ skill.mastery - skillPrev.mastery >= 1950

\* C30: the buffer holds at most 50 entries, newest first; logEvent puts the
\* new entry first and, when that makes 51, drops exactly the oldest;
\* clearLogs empties it; changing the array getRecentLogs returned leaves the
\* buffer as it was.
C30_LogBuffer ==
    /\ Len(logBuffer) <= 50
    /\ \A i \in 1..(Len(logBuffer) - 1) : logBuffer[i] > logBuffer[i + 1]
    /\ logOp = "logEvent" =>
          /\ logBuffer[1] = logSerial
          /\ Len(logBuffer) = IF Len(logBefore) = 50 THEN 50 ELSE Len(logBefore) + 1
          /\ \A i \in 2..Len(logBuffer) : logBuffer[i] = logBefore[i - 1]
    /\ logOp = "clearLogs" => logBuffer = << >>
    /\ logOp = "getRecentLogs" => (logReturned.items = logBuffer /\ logBuffer = logBefore)
    /\ logOp = "mutate" => logBuffer = logBefore

\* C30 witness: the 51st entry was logged: entries 51 down to 2 are kept
C30_FiftyFirst ==
    /\ logOp = "logEvent"
    /\ logSerial = 51
    /\ Len(logBefore) = 50 /\ logBefore[50] = 1
    /\ Len(logBuffer) = 50
    /\ logBuffer[1] = 51 /\ logBuffer[50] = 2

\* the caller emptied the array it was given while the buffer was full
C30_CallerEmptiedCopy ==
    /\ logOp = "mutate"
    /\ logReturned.items = << >>
    /\ Len(logBuffer) = 50

=============================================================================
